---- MODULE Spec2Model ----
(***************************************************************************)
(* Recording session orchestrator (StorageManager), capture engine         *)
(* (AudioRecorder) and durable store (DatabaseManager) of the voice        *)
(* recorder, as a state machine.                                           *)
(*                                                                         *)
(* Session ids are 1..MaxSessions; 0 is the empty string.  Wall-clock time *)
(* is counted in ticks, TicksPerBurst ticks making one burst duration      *)
(* (kBurstDurationSec seconds).  The text whisper returns for a chunk is   *)
(* represented by the chunk's index, a transcript by the sequence of the   *)
(* texts that were joined.                                                 *)
(***************************************************************************)
EXTENDS Integers, Sequences, FiniteSets, TLC

MaxSessions == 2
MaxTicks == 4
TicksPerBurst == 2
MaxRestarts == 1
MaxRows == 2
MaxBursts == 2
MaxTrSessions == 1
kBurstDurationSec == 35

Callers == {"t1", "t2"}
NoThread == "none"
Ids == 1..MaxSessions
NoPath == [sid |-> 0, idx |-> 0]

VARIABLES
    db,                     \* the SQLite database: sessions and chunks tables
    alive, restarts, bootNext,
    now,                    \* wall-clock time
    db_open,                \* DatabaseManager::db_ != nullptr
    sm_mu_,                 \* StorageManager::mu_ (holder)
    current_session_id_,
    transcription_thread_,  \* 0: not joinable, s: the thread launched for s
    task, snap,             \* transcribe_session runs: position, chunks read
    pc, sid,                \* caller threads: position, local session_id
    initpc, orphaned, recovered,
    rec,                    \* AudioRecorder fields
    cappc, elapsed,         \* recording_loop: position, now - chunk_start
    capTime, dropped, stopped, heard,
    result,                 \* transcription thread: the transcript returned
    called,                 \* done_cb invocations made inside a caller's stop()
    notified,               \* done_cb invocations made by transcription threads
    csnap,                  \* a caller's transcribe_session: chunks read
    last,                   \* the last DatabaseManager call: what failed, what it returned
    prog,                   \* a transcribe_session with a progress callback
    tr,                     \* a transcribe_session on a store filled by its caller
    burst_calls,            \* every burst_cb_ invocation and what add_chunk returned
    attempts,               \* transcribe_session calls made by stop() threads and recovery
    rec_ret                 \* what a caller's recorder_.stop_recording() returned

vars == <<db, alive, restarts, bootNext, now, db_open, sm_mu_,
          current_session_id_, transcription_thread_, task, snap, pc, sid,
          initpc, orphaned, recovered, rec, cappc, elapsed, capTime, dropped,
          stopped, heard, result, called, notified, csnap, last, prog, tr,
          burst_calls, attempts, rec_ret>>

callbacks == <<result, called, notified>>

ghosts == <<capTime, dropped, stopped, heard>>

\* Everything but the database, the last call to it and the progress run.
orchestrator == <<alive, restarts, bootNext, now, sm_mu_, current_session_id_,
                  transcription_thread_, task, snap, pc, sid, initpc, orphaned,
                  recovered, rec, cappc, elapsed, ghosts, callbacks, csnap,
                  attempts, rec_ret>>

-----------------------------------------------------------------------------
(* DatabaseManager *)

InitDb ==
    [status |-> [i \in Ids |-> "absent"],
     transcript |-> [i \in Ids |-> <<>>],
     duration_ms |-> [i \in Ids |-> 0],
     chunks |-> <<>>,
     next |-> 1]

create_session(d) ==
    [d EXCEPT !.status[d.next] = "recording", !.next = @ + 1]

\* The UPDATE is not executed.
update_status_lost(d, id, st) == d

update_status(d, id, st) ==
    IF d.status[id] = "absent" THEN d ELSE [d EXCEPT !.status[id] = st]

\* The session is left as it is.
mark_failed_lost(d, id) == d

mark_failed(d, id) == update_status(d, id, "failed")

update_transcript(d, id, text, dur) ==
    IF d.status[id] = "absent" THEN d
    ELSE [d EXCEPT !.transcript[id] = text, !.duration_ms[id] = dur,
                   !.status[id] = "complete"]

add_chunk(d, id, idx, audio, dur) ==
    IF d.status[id] = "absent" THEN d
    ELSE [d EXCEPT !.chunks = Append(@, [session_id |-> id, chunk_index |-> idx,
                                         audio |-> audio, duration_ms |-> dur])]

\* DELETE FROM chunks WHERE session_id = ?
delete_chunks(d, id) ==
    [d EXCEPT !.chunks = SelectSeq(@, LAMBDA c : c.session_id # id)]

\* DELETE FROM sessions WHERE id = ?
delete_row(d, id) ==
    [d EXCEPT !.status[id] = "absent", !.transcript[id] = <<>>,
              !.duration_ms[id] = 0]

delete_session(d, id) == delete_row(delete_chunks(d, id), id)

RECURSIVE InsertByIndex(_, _)
InsertByIndex(c, sorted) ==
    IF sorted = <<>> THEN <<c>>
    ELSE IF c.chunk_index < Head(sorted).chunk_index THEN <<c>> \o sorted
    ELSE <<Head(sorted)>> \o InsertByIndex(c, Tail(sorted))

RECURSIVE OrderByIndex(_)
OrderByIndex(rows) ==
    IF rows = <<>> THEN <<>>
    ELSE InsertByIndex(rows[Len(rows)], OrderByIndex(SubSeq(rows, 1, Len(rows) - 1)))

\* The ORDER BY is left out.
get_chunks_unordered(d, id) ==
    SelectSeq(d.chunks, LAMBDA c : c.session_id = id)

get_chunks(d, id) ==
    OrderByIndex(SelectSeq(d.chunks, LAMBDA c : c.session_id = id))

RECURSIVE IdsDescending(_, _)
IdsDescending(d, i) ==
    IF i = 0 THEN <<>>
    ELSE (IF d.status[i] = "recording" THEN <<i>> ELSE <<>>) \o IdsDescending(d, i - 1)

\* Every orphaned session is listed twice.
get_orphaned_sessions_twice(d) ==
    IdsDescending(d, MaxSessions) \o IdsDescending(d, MaxSessions)

get_orphaned_sessions(d) == IdsDescending(d, MaxSessions)

-----------------------------------------------------------------------------
(* AudioRecorder *)

InitRec ==
    [recording_ |-> FALSE, session_id_ |-> 0, burst_cb_ |-> 0, chunk_index_ |-> 0,
     current_chunk_path_ |-> NoPath, fmt_ctx_in_ |-> FALSE, fmt_ctx_out_ |-> FALSE,
     record_thread_ |-> FALSE, file |-> "none"]

\* The check of recording_ is missing.
is_recording_never(r) == FALSE

is_recording(r) == r.recording_

\* file: the scratch file at current_chunk_path_: "none" (no such file),
\* "empty" (container without audio), "dirty" (audio not yet delivered),
\* "saved" (audio already delivered once).
open_new_chunk(r, ok) ==
    LET p == [sid |-> r.session_id_, idx |-> r.chunk_index_]
    IN IF ok THEN [r EXCEPT !.current_chunk_path_ = p, !.fmt_ctx_out_ = TRUE,
                            !.file = "empty"]
       ELSE [r EXCEPT !.current_chunk_path_ = p, !.file = "none"]

\* Lines 325-341 with StorageManager.cpp 77-82: burst_cb_ is invoked for the
\* chunk being finalized, and stored is what db_.add_chunk returned.
burst_cb_called(r, calls, stored) ==
    IF r.current_chunk_path_ # NoPath /\ r.burst_cb_ # 0 /\ r.file # "none"
    THEN calls \cup {[session_id |-> r.burst_cb_, chunk_index |-> r.chunk_index_,
                      stored |-> stored]}
    ELSE calls

finalize_chunk(r, d) ==
    IF r.current_chunk_path_ = NoPath THEN [rec |-> r, db |-> d]
    ELSE LET deliver == r.burst_cb_ # 0 /\ r.file # "none"
             audio == IF r.file = "empty" THEN "empty" ELSE "audio"
         IN [rec |-> [r EXCEPT !.fmt_ctx_out_ = FALSE,
                               !.file = IF deliver /\ @ = "dirty" THEN "saved" ELSE @,
                               !.chunk_index_ = @ + 1],
             db |-> IF deliver
                    THEN add_chunk(d, r.burst_cb_, r.chunk_index_, audio,
                                   kBurstDurationSec * 1000)
                    ELSE d]

\* burst_cb_ is invoked by the finalize_chunk of r.
burst_delivered(r) ==
    r.current_chunk_path_ # NoPath /\ r.burst_cb_ # 0 /\ r.file # "none"

\* The recorder goes on as if nothing had been lost.
finalize_chunk_lost_stuck(r, d) == [rec |-> r, db |-> d]

\* finalize_chunk with a db_.add_chunk that fails: nothing is stored.
finalize_chunk_lost(r, d) == [rec |-> finalize_chunk(r, d).rec, db |-> d]

-----------------------------------------------------------------------------
(* StorageManager::transcribe_session *)

\* What decoding and inference give for the chunks read is an input: texts is
\* the set of positions of rows for which whisper returned text.  A container
\* without audio decodes to no samples and is skipped.
Hearable(rows) == SUBSET {i \in 1..Len(rows) : rows[i].audio = "audio"}

\* The text of a burst is written as its chunk_index, the " " of line 212 as
\* Space.
Space == -1

\* The separator is left out.
append_text_unspaced(full, text) == Append(full, text)

\* Lines 210-216, for a text that is not empty.
append_text(full, text) ==
    IF full # <<>> THEN full \o <<Space, text>> ELSE <<text>>

RECURSIVE JoinTexts(_, _, _)
JoinTexts(rows, texts, i) ==
    IF i > Len(rows) THEN <<>>
    ELSE LET rest == JoinTexts(rows, texts, i + 1)
         IN IF i \notin texts THEN rest
            ELSE IF rest = <<>> THEN <<rows[i].chunk_index>>
            ELSE <<rows[i].chunk_index, Space>> \o rest

full_transcript(rows, texts) == JoinTexts(rows, texts, 1)

RECURSIVE total_duration_ms(_)
total_duration_ms(rows) ==
    IF rows = <<>> THEN 0 ELSE Head(rows).duration_ms + total_duration_ms(Tail(rows))

\* The string transcribe_session returns.
transcribe_result(rows, texts) ==
    IF rows = <<>> THEN <<>> ELSE full_transcript(rows, texts)

\* A session for which nothing was heard is not marked failed.
transcribe_persist_nofail(d, id, rows, texts) ==
    IF full_transcript(rows, texts) = <<>> THEN d
    ELSE update_transcript(d, id, full_transcript(rows, texts),
                           total_duration_ms(rows))

transcribe_persist(d, id, rows, texts) ==
    IF rows = <<>> THEN mark_failed(d, id)
    ELSE IF full_transcript(rows, texts) = <<>> THEN mark_failed(d, id)
    ELSE update_transcript(d, id, full_transcript(rows, texts),
                           total_duration_ms(rows))

-----------------------------------------------------------------------------
\* mu_ is not taken.
lock_free_always(mu) == TRUE

\* std::lock_guard<std::mutex> lock(mu_) can be taken.
lock_free(mu) == mu = NoThread

\* The arguments of one done_cb(session_id, transcript, success) invocation.
Invocation(id, transcript, success) ==
    [id |-> id, transcript |-> transcript, success |-> success]

NoCall == [op |-> "none", id |-> 0, failed |-> FALSE, ok |-> TRUE]

NoProgress == [state |-> "idle", n |-> 0, i |-> 0, p |-> -1, log |-> <<>>]

\* AudioRecorder::stop_recording has not returned to the caller.
NotReturned == [returned |-> FALSE, path |-> NoPath]

NoTranscribe ==
    [state |-> "idle", id |-> 0, rows |-> <<>>, i |-> 0, full |-> <<>>,
     converted |-> {}, transcribed |-> {}, texts |-> {}, ret |-> <<>>]

Init ==
    /\ db = InitDb
    /\ alive = TRUE /\ restarts = 0 /\ bootNext = 1 /\ now = 0
    /\ db_open = FALSE
    /\ sm_mu_ = NoThread /\ current_session_id_ = 0 /\ transcription_thread_ = 0
    /\ task = [s \in Ids |-> "none"] /\ snap = [s \in Ids |-> <<>>]
    /\ pc = [t \in Callers |-> "idle"] /\ sid = [t \in Callers |-> 0]
    /\ initpc = "notcalled" /\ orphaned = <<>> /\ recovered = {}
    /\ rec = InitRec /\ cappc = "off" /\ elapsed = 0
    /\ capTime = 0
    /\ dropped = [s \in Ids |-> FALSE]
    /\ stopped = [s \in Ids |-> FALSE]
    /\ heard = [s \in Ids |-> FALSE]
    /\ result = [s \in Ids |-> <<>>]
    /\ called = [t \in Callers |-> <<>>]
    /\ notified = [s \in Ids |-> <<>>]
    /\ csnap = [t \in Callers |-> <<>>]
    /\ last = NoCall
    /\ prog = NoProgress
    /\ tr = NoTranscribe
    /\ burst_calls = {}
    /\ attempts = [s \in Ids |-> 0]
    /\ rec_ret = [t \in Callers |-> NotReturned]

\* The process ends: every thread and every in-memory field is gone, the
\* database file stays.
Die ==
    /\ alive' = FALSE
    /\ db_open' = FALSE
    /\ sm_mu_' = NoThread /\ current_session_id_' = 0 /\ transcription_thread_' = 0
    /\ task' = [s \in Ids |-> "none"] /\ snap' = [s \in Ids |-> <<>>]
    /\ pc' = [t \in Callers |-> "idle"] /\ sid' = [t \in Callers |-> 0]
    /\ initpc' = "notcalled" /\ orphaned' = <<>> /\ recovered' = {}
    /\ rec' = InitRec /\ cappc' = "off" /\ elapsed' = 0
    /\ capTime' = 0 /\ dropped' = [s \in Ids |-> FALSE]
    /\ result' = [s \in Ids |-> <<>>]
    /\ called' = [t \in Callers |-> <<>>]
    /\ notified' = [s \in Ids |-> <<>>]
    /\ csnap' = [t \in Callers |-> <<>>]
    /\ attempts' = [s \in Ids |-> 0]
    /\ rec_ret' = [t \in Callers |-> NotReturned]
    /\ UNCHANGED <<db, restarts, bootNext, now, stopped, heard, last, prog, tr,
                   burst_calls>>

RetPcs == {"ret_start_busy", "ret_start_nodb", "ret_start_fail", "ret_start_ok",
           "ret_stop_rejected", "ret_stop_ok", "ret_transcribe"}

\* A call's return to its caller touches nothing shared, so it is taken as the
\* step right after the call's last step: no other step is taken while a call
\* is returning.
Returning == alive /\ \E t \in Callers : pc[t] \in RetPcs

Crash == alive /\ ~Returning /\ Die

Restart ==
    /\ ~alive /\ restarts < MaxRestarts
    /\ alive' = TRUE /\ restarts' = restarts + 1 /\ bootNext' = db.next
    /\ UNCHANGED <<db, now, db_open, sm_mu_, current_session_id_,
                   transcription_thread_, task, snap, pc, sid, initpc, orphaned,
                   recovered, rec, cappc, elapsed, ghosts,
                   result, called, notified,
                   csnap, last, prog,
                   tr, burst_calls,
                   attempts, rec_ret>>

-----------------------------------------------------------------------------
(* StorageManager::init and recover_orphaned_sessions (the startup thread) *)

InitBegin ==
    /\ alive /\ ~Returning /\ initpc = "notcalled" /\ lock_free(sm_mu_)
    /\ \E opened \in BOOLEAN :
          IF opened
          THEN /\ db_open' = TRUE
               /\ sm_mu_' = "init" /\ initpc' = "recover"
               /\ orphaned' = get_orphaned_sessions(db)
               /\ recovered' = {i \in Ids : db.status[i] = "recording"}
          ELSE /\ initpc' = "failed"
               /\ UNCHANGED <<db_open, sm_mu_, orphaned, recovered>>
    /\ UNCHANGED <<db, alive, restarts, bootNext, now, current_session_id_,
                   transcription_thread_, task, snap, pc, sid, rec, cappc,
                   elapsed, ghosts,
                   result, called, notified,
                   csnap, last, prog,
                   tr, burst_calls,
                   attempts, rec_ret>>

\* init() called again while a recording is active: db_.open() returns true
\* for a database that is open (DatabaseManager.cpp:80) and
\* recover_orphaned_sessions runs as at startup.
InitAgain ==
    /\ alive /\ ~Returning /\ initpc = "done" /\ lock_free(sm_mu_)
    /\ db_open /\ is_recording(rec)
    /\ sm_mu_' = "init" /\ initpc' = "recover"
    /\ orphaned' = get_orphaned_sessions(db)
    /\ recovered' = {i \in Ids : db.status[i] = "recording"}
    /\ UNCHANGED <<db, alive, restarts, bootNext, now, db_open,
                   current_session_id_, transcription_thread_, task, snap, pc,
                   sid, rec, cappc, elapsed, ghosts,
                   result, called, notified,
                   csnap, last, prog,
                   tr, burst_calls,
                   attempts, rec_ret>>

RecoverNext ==
    /\ alive /\ ~Returning /\ initpc = "recover" /\ orphaned # <<>>
    /\ LET s == Head(orphaned)
       IN IF get_chunks(db, s) = <<>>
          THEN /\ db' = mark_failed(db, s)
               /\ orphaned' = Tail(orphaned)
               /\ UNCHANGED initpc
          ELSE /\ db' = update_status(db, s, "transcribing")
               /\ initpc' = "rec_get"
               /\ UNCHANGED orphaned
    /\ UNCHANGED <<alive, restarts, bootNext, now, db_open, sm_mu_,
                   current_session_id_, transcription_thread_, task, snap, pc,
                   sid, recovered, rec, cappc, elapsed, ghosts,
                   result, called, notified,
                   csnap, last, prog,
                   tr, burst_calls,
                   attempts, rec_ret>>

RecoverGet ==
    /\ alive /\ ~Returning /\ initpc = "rec_get"
    /\ snap' = [snap EXCEPT ![Head(orphaned)] = get_chunks(db, Head(orphaned))]
    /\ initpc' = "rec_persist"
    /\ attempts' = [attempts EXCEPT ![Head(orphaned)] = @ + 1]
    /\ UNCHANGED <<db, alive, restarts, bootNext, now, db_open, sm_mu_,
                   current_session_id_, transcription_thread_, task, pc, sid,
                   orphaned, recovered, rec, cappc, elapsed, ghosts,
                   result, called, notified,
                   csnap, last, prog,
                   tr, burst_calls,
                   rec_ret>>

RecoverPersist ==
    /\ alive /\ ~Returning /\ initpc = "rec_persist"
    /\ LET s == Head(orphaned)
       IN \E texts \in Hearable(snap[s]) :
            /\ db' = transcribe_persist(db, s, snap[s], texts)
            /\ heard' = [heard EXCEPT ![s] = texts # {}]
            /\ snap' = [snap EXCEPT ![s] = <<>>]
    /\ orphaned' = Tail(orphaned)
    /\ initpc' = "recover"
    /\ UNCHANGED <<alive, restarts, bootNext, now, db_open, sm_mu_,
                   current_session_id_, transcription_thread_, task, pc, sid,
                   recovered, rec, cappc, elapsed, capTime, dropped, stopped,
                   result, called, notified,
                   csnap, last, prog,
                   tr, burst_calls,
                   attempts, rec_ret>>

InitReturn ==
    /\ alive /\ ~Returning /\ initpc = "recover" /\ orphaned = <<>>
    /\ sm_mu_' = NoThread /\ initpc' = "done"
    /\ UNCHANGED <<db, alive, restarts, bootNext, now, db_open,
                   current_session_id_, transcription_thread_, task, snap, pc,
                   sid, orphaned, recovered, rec, cappc, elapsed, ghosts,
                   result, called, notified,
                   csnap, last, prog,
                   tr, burst_calls,
                   attempts, rec_ret>>

-----------------------------------------------------------------------------
(* StorageManager::start_recording *)

\* Returns "" at line 66 (already recording) or line 72 (no session id).
StartRejected(t) ==
    /\ alive /\ ~Returning /\ pc[t] = "idle" /\ lock_free(sm_mu_)
    /\ is_recording(rec) \/ ~db_open
    /\ pc' = [pc EXCEPT ![t] = IF is_recording(rec) THEN "ret_start_busy"
                               ELSE "ret_start_nodb"]
    /\ UNCHANGED <<db, alive, restarts, bootNext, now, db_open, sm_mu_,
                   current_session_id_, transcription_thread_, task, snap, sid,
                   initpc, orphaned, recovered, rec, cappc, elapsed, ghosts,
                   result, called, notified,
                   csnap, last, prog,
                   tr, burst_calls,
                   attempts, rec_ret>>

StartCreate(t) ==
    /\ alive /\ ~Returning /\ pc[t] = "idle" /\ lock_free(sm_mu_)
    /\ ~is_recording(rec) /\ db_open /\ db.next <= MaxSessions
    /\ sm_mu_' = t
    /\ db' = create_session(db)
    /\ sid' = [sid EXCEPT ![t] = db.next]
    /\ current_session_id_' = db.next
    /\ pc' = [pc EXCEPT ![t] = "start_rec"]
    /\ UNCHANGED <<alive, restarts, bootNext, now, db_open,
                   transcription_thread_, task, snap, initpc, orphaned, recovered,
                   rec, cappc, elapsed, ghosts,
                   result, called, notified,
                   csnap, last, prog,
                   tr, burst_calls,
                   attempts, rec_ret>>

\* The frames of a scratch file that is replaced before it was delivered are
\* never delivered.
Replaced(r) ==
    IF r.file = "dirty"
    THEN [dropped EXCEPT ![r.current_chunk_path_.sid] = TRUE]
    ELSE dropped

\* AudioRecorder::start_recording and the rest of StorageManager::start_recording.
StartRecorder(t) ==
    /\ alive /\ ~Returning /\ pc[t] = "start_rec"
    /\ \E outcome \in {"ok", "nodevice", "noencoder"} :
         LET r0 == [rec EXCEPT !.session_id_ = sid[t], !.chunk_index_ = 0,
                               !.burst_cb_ = sid[t]]
             r1 == [r0 EXCEPT !.fmt_ctx_in_ = TRUE]
             started == ~rec.recording_ /\ outcome = "ok"
         IN /\ started => ~rec.record_thread_
            /\ rec' = IF rec.recording_ THEN rec
                      ELSE IF outcome = "nodevice" THEN r0
                      ELSE IF outcome = "noencoder" THEN open_new_chunk(r1, FALSE)
                      ELSE [open_new_chunk(r1, TRUE) EXCEPT !.recording_ = TRUE,
                                                            !.record_thread_ = TRUE]
            /\ dropped' = IF rec.recording_ \/ outcome = "nodevice" THEN dropped
                          ELSE Replaced(rec)
            /\ IF started
               THEN /\ cappc' = "loop" /\ elapsed' = 0 /\ capTime' = 0
                    /\ pc' = [pc EXCEPT ![t] = "ret_start_ok"]
                    /\ UNCHANGED <<db, current_session_id_>>
               ELSE /\ db' = mark_failed(db, sid[t])
                    /\ current_session_id_' = 0
                    /\ pc' = [pc EXCEPT ![t] = "ret_start_fail"]
                    /\ UNCHANGED <<cappc, elapsed, capTime>>
    /\ sm_mu_' = NoThread
    /\ UNCHANGED <<alive, restarts, bootNext, now, db_open,
                   transcription_thread_, task, snap, sid, initpc, orphaned,
                   recovered, stopped, heard,
                   result, called, notified,
                   csnap, last, prog,
                   tr, burst_calls,
                   attempts, rec_ret>>

\* record_thread_ = std::thread(...) while record_thread_ is still joinable:
\* std::terminate.
StartRecorderTerminate(t) ==
    /\ alive /\ ~Returning /\ pc[t] = "start_rec"
    /\ ~rec.recording_ /\ rec.record_thread_
    /\ Die

CallerReturn(t) ==
    /\ alive /\ pc[t] \in RetPcs
    /\ pc' = [pc EXCEPT ![t] = "idle"]
    /\ sid' = [sid EXCEPT ![t] = 0]
    /\ called' = [called EXCEPT ![t] = <<>>]
    /\ rec_ret' = [rec_ret EXCEPT ![t] = NotReturned]
    /\ UNCHANGED <<db, alive, restarts, bootNext, now, db_open, sm_mu_,
                   current_session_id_, transcription_thread_, task, snap,
                   initpc, orphaned, recovered, rec, cappc, elapsed, ghosts,
                   result, notified,
                   csnap, last, prog,
                   tr, burst_calls,
                   attempts>>

-----------------------------------------------------------------------------
(* StorageManager::stop_recording *)

\* Every stop() is accepted.
stop_refused_never(r, cur) == FALSE

\* Line 112.
stop_refused(r, cur) == ~is_recording(r) \/ cur = 0

\* Lines 109-115, under mu_: done_cb("", "", false) and return.
StopRejected(t) ==
    /\ alive /\ ~Returning /\ pc[t] = "idle" /\ lock_free(sm_mu_)
    /\ stop_refused(rec, current_session_id_)
    /\ called' = [called EXCEPT ![t] = Append(@, Invocation(0, <<>>, FALSE))]
    /\ pc' = [pc EXCEPT ![t] = "ret_stop_rejected"]
    /\ UNCHANGED <<db, alive, restarts, bootNext, now, db_open, sm_mu_,
                   current_session_id_, transcription_thread_, task, snap, sid,
                   initpc, orphaned, recovered, rec, cappc, elapsed, ghosts,
                   result, notified,
                   csnap, last, prog,
                   tr, burst_calls,
                   attempts, rec_ret>>

\* Lines 109-119, under mu_.
StopBegin(t) ==
    /\ alive /\ ~Returning /\ pc[t] = "idle" /\ lock_free(sm_mu_)
    /\ ~stop_refused(rec, current_session_id_)
    /\ sid' = [sid EXCEPT ![t] = current_session_id_]
    /\ current_session_id_' = 0
    /\ pc' = [pc EXCEPT ![t] = "rec_stop"]
    /\ UNCHANGED <<db, alive, restarts, bootNext, now, db_open, sm_mu_,
                   transcription_thread_, task, snap, initpc, orphaned, recovered,
                   rec, cappc, elapsed, ghosts,
                   result, called, notified,
                   csnap, last, prog,
                   tr, burst_calls,
                   attempts, rec_ret>>

\* The last path is returned whether or not a recording was active.
stop_recording_result_path(r, recording) ==
    [returned |-> TRUE, path |-> r.current_chunk_path_]

\* What AudioRecorder::stop_recording returns: "" at line 94 when recording_
\* was not set, last_path (line 108) otherwise.
stop_recording_result(r, recording) ==
    [returned |-> TRUE,
     path |-> IF recording THEN r.current_chunk_path_ ELSE NoPath]

\* AudioRecorder::stop_recording, lines 93-97.
RecStopFlag(t) ==
    /\ alive /\ ~Returning /\ pc[t] = "rec_stop"
    /\ IF rec.recording_
       THEN /\ rec' = [rec EXCEPT !.recording_ = FALSE]
            /\ pc' = [pc EXCEPT ![t] = "rec_join"]
            /\ UNCHANGED rec_ret
       ELSE /\ pc' = [pc EXCEPT ![t] = "mark"]
            /\ rec_ret' = [rec_ret EXCEPT
                              ![t] = stop_recording_result(rec, FALSE)]
            /\ UNCHANGED rec
    /\ UNCHANGED <<db, alive, restarts, bootNext, now, db_open, sm_mu_,
                   current_session_id_, transcription_thread_, task, snap, sid,
                   initpc, orphaned, recovered, cappc, elapsed, ghosts,
                   result, called, notified,
                   csnap, last, prog,
                   tr, burst_calls,
                   attempts>>

\* The capture thread is not waited for.
record_joinable_never(r) == FALSE

\* Line 99.
record_joinable(r) == r.record_thread_

\* Lines 99-101: join returns once recording_loop has returned.
RecStopJoin(t) ==
    /\ alive /\ ~Returning /\ pc[t] = "rec_join"
    /\ IF record_joinable(rec)
       THEN /\ cappc = "exited"
            /\ cappc' = "off"
            /\ rec' = [rec EXCEPT !.record_thread_ = FALSE]
       ELSE UNCHANGED <<cappc, rec>>
    /\ pc' = [pc EXCEPT ![t] = "rec_fin"]
    /\ UNCHANGED <<db, alive, restarts, bootNext, now, db_open, sm_mu_,
                   current_session_id_, transcription_thread_, task, snap, sid,
                   initpc, orphaned, recovered, elapsed, ghosts,
                   result, called, notified,
                   csnap, last, prog,
                   tr, burst_calls,
                   attempts, rec_ret>>

\* Lines 103-120, under the recorder's mu_.
RecStopFinalize(t) ==
    /\ alive /\ ~Returning /\ pc[t] = "rec_fin"
    /\ LET f == finalize_chunk(rec, db)
       IN /\ rec' = [f.rec EXCEPT !.fmt_ctx_in_ = FALSE]
          /\ db' = f.db
          /\ burst_calls' = burst_cb_called(rec, burst_calls, f.db # db)
    /\ pc' = [pc EXCEPT ![t] = "mark"]
    /\ rec_ret' = [rec_ret EXCEPT ![t] = stop_recording_result(rec, TRUE)]
    /\ UNCHANGED <<alive, restarts, bootNext, now, db_open, sm_mu_,
                   current_session_id_, transcription_thread_, task, snap, sid,
                   initpc, orphaned, recovered, cappc, elapsed, ghosts,
                   result, called, notified,
                   csnap, last, prog,
                   tr,
                   attempts>>

\* Line 126.
StopMark(t) ==
    /\ alive /\ ~Returning /\ pc[t] = "mark"
    /\ db' = update_status(db, sid[t], "transcribing")
    /\ pc' = [pc EXCEPT ![t] = "chk_join"]
    /\ UNCHANGED <<alive, restarts, bootNext, now, db_open, sm_mu_,
                   current_session_id_, transcription_thread_, task, snap, sid,
                   initpc, orphaned, recovered, rec, cappc, elapsed, ghosts,
                   result, called, notified,
                   csnap, last, prog,
                   tr, burst_calls,
                   attempts, rec_ret>>

\* The previous thread is not waited for.
joinable_skipped(th) == FALSE

joinable(th) == th # 0

\* Line 129.
StopCheckJoinable(t) ==
    /\ alive /\ ~Returning /\ pc[t] = "chk_join"
    /\ pc' = [pc EXCEPT ![t] = IF joinable(transcription_thread_) THEN "join"
                               ELSE "spawn"]
    /\ UNCHANGED <<db, alive, restarts, bootNext, now, db_open, sm_mu_,
                   current_session_id_, transcription_thread_, task, snap, sid,
                   initpc, orphaned, recovered, rec, cappc, elapsed, ghosts,
                   result, called, notified,
                   csnap, last, prog,
                   tr, burst_calls,
                   attempts, rec_ret>>

\* Line 130: join returns once the thread's function has returned.  join() of
\* a thread object another caller has joined meanwhile throws
\* std::system_error, which nothing catches.
StopJoin(t) ==
    /\ alive /\ ~Returning /\ pc[t] = "join"
    /\ IF joinable(transcription_thread_)
       THEN /\ task[transcription_thread_] = "finished"
            /\ transcription_thread_' = 0
            /\ pc' = [pc EXCEPT ![t] = "spawn"]
            /\ UNCHANGED <<db, alive, restarts, bootNext, now, db_open, sm_mu_,
                           current_session_id_, task, snap, sid, initpc,
                           orphaned, recovered, rec, cappc, elapsed, ghosts,
                           result, called, notified,
                           csnap, last, prog,
                           tr, burst_calls,
                           attempts, rec_ret>>
       ELSE Die

\* Line 134, right-hand side: the new thread starts running.
StopSpawn(t) ==
    /\ alive /\ ~Returning /\ pc[t] = "spawn"
    /\ task' = [task EXCEPT ![sid[t]] = "get"]
    /\ pc' = [pc EXCEPT ![t] = "assign"]
    /\ UNCHANGED <<db, alive, restarts, bootNext, now, db_open, sm_mu_,
                   current_session_id_, transcription_thread_, snap, sid, initpc,
                   orphaned, recovered, rec, cappc, elapsed, ghosts,
                   result, called, notified,
                   csnap, last, prog,
                   tr, burst_calls,
                   attempts, rec_ret>>

\* Line 134, move assignment to transcription_thread_; stop_recording returns.
StopAssign(t) ==
    /\ alive /\ ~Returning /\ pc[t] = "assign"
    /\ ~joinable(transcription_thread_)
    /\ transcription_thread_' = sid[t]
    /\ stopped' = [stopped EXCEPT ![sid[t]] = TRUE]
    /\ pc' = [pc EXCEPT ![t] = "ret_stop_ok"]
    /\ UNCHANGED <<db, alive, restarts, bootNext, now, db_open, sm_mu_,
                   current_session_id_, task, snap, sid, initpc, orphaned,
                   recovered, rec, cappc, elapsed, capTime, dropped, heard,
                   result, called, notified,
                   csnap, last, prog,
                   tr, burst_calls,
                   attempts, rec_ret>>

\* Move assignment to a joinable std::thread: std::terminate.
StopAssignTerminate(t) ==
    /\ alive /\ ~Returning /\ pc[t] = "assign"
    /\ joinable(transcription_thread_)
    /\ Die

-----------------------------------------------------------------------------
(* The transcription thread launched by stop_recording, lines 135-142 *)

Active == {"get", "persist", "cb"}

TaskGet(s) ==
    /\ alive /\ ~Returning /\ task[s] = "get"
    /\ snap' = [snap EXCEPT ![s] = get_chunks(db, s)]
    /\ task' = [task EXCEPT ![s] = "persist"]
    /\ attempts' = [attempts EXCEPT ![s] = @ + 1]
    /\ UNCHANGED <<db, alive, restarts, bootNext, now, db_open, sm_mu_,
                   current_session_id_, transcription_thread_, pc, sid, initpc,
                   orphaned, recovered, rec, cappc, elapsed, ghosts,
                   result, called, notified,
                   csnap, last, prog,
                   tr, burst_calls,
                   rec_ret>>

TaskPersist(s) ==
    /\ alive /\ ~Returning /\ task[s] = "persist"
    /\ \E texts \in Hearable(snap[s]) :
          /\ db' = transcribe_persist(db, s, snap[s], texts)
          /\ heard' = [heard EXCEPT ![s] = texts # {}]
          /\ result' = [result EXCEPT ![s] = transcribe_result(snap[s], texts)]
    /\ task' = [task EXCEPT ![s] = "cb"]
    /\ UNCHANGED <<alive, restarts, bootNext, now, db_open, sm_mu_,
                   current_session_id_, transcription_thread_, snap, pc, sid,
                   initpc, orphaned, recovered, rec, cappc, elapsed, capTime,
                   dropped, stopped,
                   called, notified,
                   csnap, last, prog,
                   tr, burst_calls,
                   attempts, rec_ret>>

TaskCallback(s) ==
    /\ alive /\ ~Returning /\ task[s] = "cb"
    /\ snap' = [snap EXCEPT ![s] = <<>>]
    /\ notified' = [notified EXCEPT
                        ![s] = Append(@, Invocation(s, result[s], result[s] # <<>>))]
    /\ result' = [result EXCEPT ![s] = <<>>]
    /\ task' = [task EXCEPT ![s] = "finished"]
    /\ UNCHANGED <<db, alive, restarts, bootNext, now, db_open, sm_mu_,
                   current_session_id_, transcription_thread_, pc, sid, initpc,
                   orphaned, recovered, rec, cappc, elapsed, ghosts,
                   called,
                   csnap, last, prog,
                   tr, burst_calls,
                   attempts, rec_ret>>

\* Line 106 with a db_.add_chunk that fails inside burst_cb_: the result is
\* dropped by the callback (StorageManager.cpp:79-82).
RecStopFinalizeWriteFails(t) ==
    /\ alive /\ ~Returning /\ pc[t] = "rec_fin"
    /\ burst_delivered(rec)
    /\ LET f == finalize_chunk_lost(rec, db)
       IN /\ rec' = [f.rec EXCEPT !.fmt_ctx_in_ = FALSE]
          /\ db' = f.db
          /\ burst_calls' = burst_cb_called(rec, burst_calls, FALSE)
    /\ pc' = [pc EXCEPT ![t] = "mark"]
    /\ rec_ret' = [rec_ret EXCEPT ![t] = stop_recording_result(rec, TRUE)]
    /\ UNCHANGED <<alive, restarts, bootNext, now, db_open, sm_mu_,
                   current_session_id_, transcription_thread_, task, snap, sid,
                   initpc, orphaned, recovered, cappc, elapsed, ghosts,
                   result, called, notified,
                   csnap, last, prog,
                   tr,
                   attempts>>

-----------------------------------------------------------------------------
(* AudioRecorder::recording_loop (the capture thread) *)

\* Lines 148-213: a frame is read and, if a chunk is open, written to it.
CapRead ==
    /\ alive /\ ~Returning /\ cappc = "loop" /\ rec.recording_ /\ rec.fmt_ctx_in_
    /\ rec' = IF rec.fmt_ctx_out_ THEN [rec EXCEPT !.file = "dirty"] ELSE rec
    /\ cappc' = "body"
    /\ UNCHANGED <<db, alive, restarts, bootNext, now, db_open, sm_mu_,
                   current_session_id_, transcription_thread_, task, snap, pc,
                   sid, initpc, orphaned, recovered, elapsed, ghosts,
                   result, called, notified,
                   csnap, last, prog,
                   tr, burst_calls,
                   attempts, rec_ret>>

\* av_read_frame on the input context a concurrent stop_recording has closed.
CapReadClosed ==
    /\ alive /\ ~Returning /\ cappc = "loop" /\ rec.recording_ /\ ~rec.fmt_ctx_in_
    /\ Die

\* Line 156: AVERROR_EOF ends the loop; recording_ stays set.
CapEOF ==
    /\ alive /\ ~Returning /\ cappc = "loop" /\ rec.recording_ /\ rec.fmt_ctx_in_
    /\ cappc' = "exited" /\ elapsed' = 0
    /\ UNCHANGED <<db, alive, restarts, bootNext, now, db_open, sm_mu_,
                   current_session_id_, transcription_thread_, task, snap, pc,
                   sid, initpc, orphaned, recovered, rec, ghosts,
                   result, called, notified,
                   csnap, last, prog,
                   tr, burst_calls,
                   attempts, rec_ret>>

\* Lines 153-157: av_read_frame fails with an error other than AVERROR_EOF;
\* the loop reaches continue.
CapReadError ==
    /\ alive /\ ~Returning /\ cappc = "loop" /\ rec.recording_ /\ rec.fmt_ctx_in_
    /\ cappc' = "retry"
    /\ UNCHANGED <<db, alive, restarts, bootNext, now, db_open, sm_mu_,
                   current_session_id_, transcription_thread_, task, snap, pc,
                   sid, initpc, orphaned, recovered, rec, elapsed, ghosts,
                   result, called, notified,
                   csnap, last, prog,
                   tr, burst_calls,
                   attempts, rec_ret>>

\* Line 157: continue goes back to the loop condition, past the boundary
\* check of lines 215-224.
CapRetry ==
    /\ alive /\ ~Returning /\ cappc = "retry"
    /\ cappc' = "loop"
    /\ UNCHANGED <<db, alive, restarts, bootNext, now, db_open, sm_mu_,
                   current_session_id_, transcription_thread_, task, snap, pc,
                   sid, initpc, orphaned, recovered, rec, elapsed, ghosts,
                   result, called, notified,
                   csnap, last, prog,
                   tr, burst_calls,
                   attempts, rec_ret>>

\* Line 148: the loop condition fails.
CapExit ==
    /\ alive /\ ~Returning /\ cappc = "loop" /\ ~rec.recording_
    /\ cappc' = "exited" /\ elapsed' = 0
    /\ UNCHANGED <<db, alive, restarts, bootNext, now, db_open, sm_mu_,
                   current_session_id_, transcription_thread_, task, snap, pc,
                   sid, initpc, orphaned, recovered, rec, ghosts,
                   result, called, notified,
                   csnap, last, prog,
                   tr, burst_calls,
                   attempts, rec_ret>>

\* Lines 215-224.
CapBoundary ==
    /\ alive /\ ~Returning /\ cappc = "body"
    /\ IF elapsed >= TicksPerBurst
       THEN \E ok \in BOOLEAN :
              LET f == finalize_chunk(rec, db)
              IN /\ rec' = open_new_chunk(f.rec, ok)
                 /\ db' = f.db
                 /\ burst_calls' = burst_cb_called(rec, burst_calls, f.db # db)
                 /\ dropped' = Replaced(f.rec)
                 /\ elapsed' = 0
       ELSE UNCHANGED <<rec, db, dropped, elapsed, burst_calls>>
    /\ cappc' = "loop"
    /\ UNCHANGED <<alive, restarts, bootNext, now, db_open, sm_mu_,
                   current_session_id_, transcription_thread_, task, snap, pc,
                   sid, initpc, orphaned, recovered, capTime, stopped, heard,
                   result, called, notified,
                   csnap, last, prog,
                   tr,
                   attempts, rec_ret>>

\* Lines 219-223 with a db_.add_chunk that fails inside burst_cb_.
CapBoundaryWriteFails ==
    /\ alive /\ ~Returning /\ cappc = "body"
    /\ elapsed >= TicksPerBurst
    /\ burst_delivered(rec)
    /\ \E ok \in BOOLEAN :
          LET f == finalize_chunk_lost(rec, db)
          IN /\ rec' = open_new_chunk(f.rec, ok)
             /\ db' = f.db
             /\ burst_calls' = burst_cb_called(rec, burst_calls, FALSE)
             /\ dropped' = Replaced(f.rec)
             /\ elapsed' = 0
    /\ cappc' = "loop"
    /\ UNCHANGED <<alive, restarts, bootNext, now, db_open, sm_mu_,
                   current_session_id_, transcription_thread_, task, snap, pc,
                   sid, initpc, orphaned, recovered, capTime, stopped, heard,
                   result, called, notified,
                   csnap, last, prog,
                   tr,
                   attempts, rec_ret>>

\* The capture thread holds the recorder's mu_ from the lock_guard of line 220
\* to the end of the block at line 224; a caller holds it within one step.
CriticalSection == {"locked", "finalized"}

\* std::lock_guard<std::mutex> lock(mu_) of the recorder can be taken.
recorder_lock_free(c) == c \notin CriticalSection

\* Lines 215-219: the boundary is not reached.
CapNoBoundary ==
    /\ alive /\ ~Returning /\ cappc = "body"
    /\ elapsed < TicksPerBurst
    /\ cappc' = "loop"
    /\ UNCHANGED <<alive, restarts, bootNext, now, db_open, sm_mu_,
                   current_session_id_, transcription_thread_, task, snap, pc,
                   sid, initpc, orphaned, recovered, capTime, stopped, heard,
                   result, called, notified,
                   csnap, last, prog,
                   tr,
                   attempts, rec_ret,
                   rec, db, dropped, elapsed, burst_calls>>

\* Lines 219-220: the boundary is reached and mu_ is taken.
CapLock ==
    /\ alive /\ ~Returning /\ cappc = "body"
    /\ elapsed >= TicksPerBurst
    /\ cappc' = "locked"
    /\ UNCHANGED <<alive, restarts, bootNext, now, db_open, sm_mu_,
                   current_session_id_, transcription_thread_, task, snap, pc,
                   sid, initpc, orphaned, recovered, capTime, stopped, heard,
                   result, called, notified,
                   csnap, last, prog,
                   tr,
                   attempts, rec_ret,
                   rec, db, dropped, elapsed, burst_calls>>

\* Line 221, under mu_.
CapFinalize ==
    /\ alive /\ ~Returning /\ cappc = "locked"
    /\ LET f == finalize_chunk(rec, db)
       IN /\ rec' = f.rec
          /\ db' = f.db
          /\ burst_calls' = burst_cb_called(rec, burst_calls, f.db # db)
    /\ cappc' = "finalized"
    /\ UNCHANGED <<alive, restarts, bootNext, now, db_open, sm_mu_,
                   current_session_id_, transcription_thread_, task, snap, pc,
                   sid, initpc, orphaned, recovered, capTime, stopped, heard,
                   result, called, notified,
                   csnap, last, prog,
                   tr,
                   attempts, rec_ret,
                   dropped, elapsed>>

\* Lines 222-224, under mu_, which is released at the end of the block.
CapOpen ==
    /\ alive /\ ~Returning /\ cappc = "finalized"
    /\ \E ok \in BOOLEAN :
          /\ rec' = open_new_chunk(rec, ok)
          /\ dropped' = Replaced(rec)
    /\ elapsed' = 0
    /\ cappc' = "loop"
    /\ UNCHANGED <<alive, restarts, bootNext, now, db_open, sm_mu_,
                   current_session_id_, transcription_thread_, task, snap, pc,
                   sid, initpc, orphaned, recovered, capTime, stopped, heard,
                   result, called, notified,
                   csnap, last, prog,
                   tr,
                   attempts, rec_ret,
                   db, burst_calls>>

\* AudioRecorder::start_recording waits for mu_ at line 45.
StartRecorderLocked(t) ==
    /\ recorder_lock_free(cappc)
    /\ StartRecorder(t)

\* AudioRecorder::stop_recording waits for mu_ at line 103.
RecStopFinalizeLocked(t) ==
    /\ recorder_lock_free(cappc)
    /\ RecStopFinalize(t)

\* Wall-clock time passes while a capture is running.
Tick ==
    /\ alive /\ ~Returning /\ cappc \in {"loop", "body"} /\ rec.recording_
    /\ now < MaxTicks
    /\ now' = now + 1
    /\ capTime' = capTime + 1
    /\ elapsed' = IF elapsed < TicksPerBurst THEN elapsed + 1 ELSE elapsed
    /\ UNCHANGED <<db, alive, restarts, bootNext, db_open, sm_mu_,
                   current_session_id_, transcription_thread_, task, snap, pc,
                   sid, initpc, orphaned, recovered, rec, cappc, dropped, stopped,
                   heard,
                   result, called, notified,
                   csnap, last, prog,
                   tr, burst_calls,
                   attempts, rec_ret>>

-----------------------------------------------------------------------------
-----------------------------------------------------------------------------
(* StorageManager::transcribe_session called by the host application *)

\* Lines 161-164: the chunks of any session that was ever created are read.
ApiTranscribeGet(t) ==
    /\ alive /\ ~Returning /\ pc[t] = "idle"
    /\ \E id \in 1..(db.next - 1) :
          /\ sid' = [sid EXCEPT ![t] = id]
          /\ csnap' = [csnap EXCEPT
                           ![t] = IF db_open THEN get_chunks(db, id) ELSE <<>>]
    /\ pc' = [pc EXCEPT ![t] = "api_persist"]
    /\ UNCHANGED <<db, alive, restarts, bootNext, now, db_open, sm_mu_,
                   current_session_id_, transcription_thread_, task, snap,
                   initpc, orphaned, recovered, rec, cappc, elapsed, ghosts,
                   callbacks, last, prog,
                   tr, burst_calls,
                   attempts, rec_ret>>

\* Lines 165-231: inference, then mark_failed or update_transcript.
ApiTranscribePersist(t) ==
    /\ alive /\ ~Returning /\ pc[t] = "api_persist"
    /\ \E texts \in Hearable(csnap[t]) :
          /\ db' = IF db_open THEN transcribe_persist(db, sid[t], csnap[t], texts)
                   ELSE db
          /\ heard' = [heard EXCEPT ![sid[t]] = texts # {}]
    /\ csnap' = [csnap EXCEPT ![t] = <<>>]
    /\ pc' = [pc EXCEPT ![t] = "ret_transcribe"]
    /\ UNCHANGED <<alive, restarts, bootNext, now, db_open, sm_mu_,
                   current_session_id_, transcription_thread_, task, snap, sid,
                   initpc, orphaned, recovered, rec, cappc, elapsed, capTime,
                   dropped, stopped, callbacks, last, prog,
                   tr, burst_calls,
                   attempts, rec_ret>>

-----------------------------------------------------------------------------
(* StorageManager::transcribe_session, burst by burst, called by a host that
   fills the store itself; no SQLite step fails *)

HostCreateSession ==
    /\ tr.state = "idle" /\ db_open /\ db.next <= MaxTrSessions
    /\ db' = create_session(db)
    /\ UNCHANGED <<db_open, orchestrator, last, prog, tr, burst_calls>>

\* Any index, given or not before, with a container that decodes to samples
\* or to none.
HostAddChunk ==
    /\ tr.state = "idle" /\ db_open /\ Len(db.chunks) < MaxRows
    /\ \E id \in 1..MaxTrSessions, idx \in 0..1, audio \in {"audio", "empty"} :
          db' = add_chunk(db, id, idx, audio, kBurstDurationSec * 1000)
    /\ UNCHANGED <<db_open, orchestrator, last, prog, tr, burst_calls>>

\* As stop_recording and recover_orphaned_sessions do before the call.
HostMarkTranscribing ==
    /\ tr.state = "idle" /\ db_open
    /\ \E id \in 1..MaxTrSessions : db' = update_status(db, id, "transcribing")
    /\ UNCHANGED <<db_open, orchestrator, last, prog, tr, burst_calls>>

\* Line 164.
TrGet ==
    /\ tr.state = "idle"
    /\ \E id \in 1..MaxTrSessions :
          LET rows == IF db_open THEN get_chunks(db, id) ELSE <<>>
          IN tr' = [NoTranscribe EXCEPT
                        !.state = IF rows = <<>> THEN "empty" ELSE "loop",
                        !.id = id, !.rows = rows, !.i = 1]
    /\ UNCHANGED <<db, db_open, orchestrator, last, prog, burst_calls>>

\* Lines 165-168.
TrEmpty ==
    /\ tr.state = "empty"
    /\ db' = IF db_open THEN mark_failed(db, tr.id) ELSE db
    /\ tr' = [tr EXCEPT !.state = "returned", !.ret = <<>>]
    /\ UNCHANGED <<db_open, orchestrator, last, prog, burst_calls>>

\* Lines 180-218, one iteration: written is whether the temporary file could
\* be opened, text whether whisper returns text for the samples decoded.
\* converted, transcribed, texts: the positions for which m4a_to_pcm was
\* called, whisper_.transcribe was called, text was returned.
TrChunk ==
    /\ tr.state = "loop" /\ tr.i <= Len(tr.rows)
    /\ \E written \in BOOLEAN, text \in BOOLEAN :
          LET row == tr.rows[tr.i]
              pcm == written /\ row.audio = "audio"
              got == pcm /\ text
          IN /\ ~pcm => ~text
             /\ tr' = [tr EXCEPT
                          !.i = @ + 1,
                          !.converted = IF written THEN @ \cup {tr.i} ELSE @,
                          !.transcribed = IF pcm THEN @ \cup {tr.i} ELSE @,
                          !.texts = IF got THEN @ \cup {tr.i} ELSE @,
                          !.full = IF got THEN append_text(@, row.chunk_index)
                                   ELSE @]
    /\ UNCHANGED <<db, db_open, orchestrator, last, prog, burst_calls>>

\* Nothing is stored for a transcript that is empty.
persist_result_nofail(d, id, full, dur) ==
    IF full = <<>> THEN d ELSE update_transcript(d, id, full, dur)

\* Lines 220-225.
persist_result(d, id, full, dur) ==
    IF full = <<>> THEN mark_failed(d, id) ELSE update_transcript(d, id, full, dur)

\* Lines 220-231, after the loop.
TrPersist ==
    /\ tr.state = "loop" /\ tr.i > Len(tr.rows)
    /\ db' = IF db_open
             THEN persist_result(db, tr.id, tr.full, total_duration_ms(tr.rows))
             ELSE db
    /\ tr' = [tr EXCEPT !.state = "returned", !.ret = tr.full]
    /\ UNCHANGED <<db_open, orchestrator, last, prog, burst_calls>>

\* The call has returned tr.ret; the host goes on.
TrReturn ==
    /\ tr.state = "returned"
    /\ tr' = NoTranscribe
    /\ UNCHANGED <<db, db_open, orchestrator, last, prog, burst_calls>>

-----------------------------------------------------------------------------
(* AudioRecorder used by a host thread of its own: start_recording and
   stop_recording are called directly, with a burst callback that stores the
   chunks of a session the host has created *)

\* AudioRecorder::start_recording, lines 41-88, under mu_.
HostRecStart(t) ==
    /\ alive /\ ~Returning /\ pc[t] = "idle" /\ db_open
    /\ Len(db.chunks) < MaxRows
    /\ \E s \in 1..MaxTrSessions, outcome \in {"ok", "nodevice", "noencoder"} :
         LET r0 == [rec EXCEPT !.session_id_ = s, !.chunk_index_ = 0,
                               !.burst_cb_ = s]
             r1 == [r0 EXCEPT !.fmt_ctx_in_ = TRUE]
             started == ~rec.recording_ /\ outcome = "ok"
         IN /\ db.status[s] # "absent"
            /\ started => ~rec.record_thread_
            /\ rec' = IF rec.recording_ THEN rec
                      ELSE IF outcome = "nodevice" THEN r0
                      ELSE IF outcome = "noencoder" THEN open_new_chunk(r1, FALSE)
                      ELSE [open_new_chunk(r1, TRUE) EXCEPT !.recording_ = TRUE,
                                                            !.record_thread_ = TRUE]
            /\ dropped' = IF rec.recording_ \/ outcome = "nodevice" THEN dropped
                          ELSE Replaced(rec)
            /\ IF started
               THEN cappc' = "loop" /\ elapsed' = 0 /\ capTime' = 0
               ELSE UNCHANGED <<cappc, elapsed, capTime>>
    /\ UNCHANGED <<db, alive, restarts, bootNext, now, db_open, sm_mu_,
                   current_session_id_, transcription_thread_, task, snap, pc,
                   sid, initpc, orphaned, recovered, stopped, heard,
                   result, called, notified,
                   csnap, last, prog,
                   tr, burst_calls,
                   attempts, rec_ret>>

\* The host calls AudioRecorder::stop_recording, recording or not.
HostRecStop(t) ==
    /\ alive /\ ~Returning /\ pc[t] = "idle"
    /\ pc' = [pc EXCEPT ![t] = "rec_stop"]
    /\ UNCHANGED <<db, alive, restarts, bootNext, now, db_open, sm_mu_,
                   current_session_id_, transcription_thread_, task, snap,
                   sid, initpc, orphaned, recovered, rec, cappc, elapsed, ghosts,
                   result, called, notified,
                   csnap, last, prog,
                   tr, burst_calls,
                   attempts, rec_ret>>

\* stop_recording has returned and the host has read what it returned.
HostRecReturn(t) ==
    /\ alive /\ ~Returning /\ pc[t] = "mark"
    /\ pc' = [pc EXCEPT ![t] = "idle"]
    /\ rec_ret' = [rec_ret EXCEPT ![t] = NotReturned]
    /\ UNCHANGED <<db, alive, restarts, bootNext, now, db_open, sm_mu_,
                   current_session_id_, transcription_thread_, task, snap,
                   sid, initpc, orphaned, recovered, rec, cappc, elapsed, ghosts,
                   result, called, notified,
                   csnap, last, prog,
                   tr, burst_calls,
                   attempts>>

-----------------------------------------------------------------------------
(* DatabaseManager calls with failing SQLite steps *)

\* What SQLite does in one call that runs n statements in a Transaction:
\* begin is whether BEGIN IMMEDIATE succeeded, fail is the step that fails:
\* 0 none, k <= n the k-th statement (prepare or step), n + 1 the COMMIT.
Outcomes(n) ==
    {o \in [begin : BOOLEAN, fail : 0..(n + 1)] : o.fail = n + 1 => o.begin}

\* after[1] is the store at the call, after[k + 1] the store once the k-th
\* statement has run.  A failing statement returns the failure value and
\* ~Transaction runs ROLLBACK; the results of BEGIN IMMEDIATE (line 21) and of
\* COMMIT (line 25) are not read: without a transaction each statement is
\* committed on its own and ROLLBACK undoes nothing, and after a failed
\* COMMIT, which SQLite rolls back, the call returns its success value.
Transaction(after, o) ==
    LET n == Len(after) - 1
    IN IF o.fail \in 1..n
       THEN [ok |-> FALSE, db |-> IF o.begin THEN after[1] ELSE after[o.fail]]
       ELSE IF o.fail = n + 1 THEN [ok |-> TRUE, db |-> after[1]]
       ELSE [ok |-> TRUE, db |-> after[n + 1]]

\* One call: if (!db_) return the failure value, else the Transaction.
\* failed: the database is not open, or a statement or the COMMIT failed.
DbCall(d, open, op, id, after, o) ==
    LET r == IF open THEN Transaction(after, o) ELSE [ok |-> FALSE, db |-> d]
    IN [db |-> r.db,
        last |-> [op |-> op, id |-> id, failed |-> ~open \/ o.fail # 0,
                  ok |-> r.ok]]

DbOpen ==
    /\ ~db_open
    /\ db_open' = TRUE
    /\ last' = [op |-> "open", id |-> 0, failed |-> FALSE, ok |-> TRUE]
    /\ UNCHANGED <<db, orchestrator, prog,
                   tr, burst_calls>>

DbCreateSession ==
    /\ db.next <= MaxSessions
    /\ \E o \in Outcomes(1) :
          LET r == DbCall(db, db_open, "create_session", db.next,
                          <<db, create_session(db)>>, o)
          IN db' = r.db /\ last' = r.last
    /\ UNCHANGED <<db_open, orchestrator, prog,
                   tr, burst_calls>>

\* The INSERT for a session that is not stored fails on the foreign key.
DbAddChunk ==
    /\ Len(db.chunks) < MaxRows
    /\ \E id \in Ids, idx \in 0..1, o \in Outcomes(1) :
          /\ db.status[id] = "absent" => o.fail = 1
          /\ LET r == DbCall(db, db_open, "add_chunk", id,
                             <<db, add_chunk(db, id, idx, "audio",
                                             kBurstDurationSec * 1000)>>, o)
             IN db' = r.db /\ last' = r.last
    /\ UNCHANGED <<db_open, orchestrator, prog,
                   tr, burst_calls>>

DbUpdateTranscript ==
    /\ \E id \in Ids, o \in Outcomes(1) :
          LET r == DbCall(db, db_open, "update_transcript", id,
                          <<db, update_transcript(db, id, <<0>>,
                                                  kBurstDurationSec * 1000)>>, o)
          IN db' = r.db /\ last' = r.last
    /\ UNCHANGED <<db_open, orchestrator, prog,
                   tr, burst_calls>>

DbUpdateStatus ==
    /\ \E id \in Ids, st \in {"recording", "transcribing", "complete"},
          o \in Outcomes(1) :
          LET r == DbCall(db, db_open, "update_status", id,
                          <<db, update_status(db, id, st)>>, o)
          IN db' = r.db /\ last' = r.last
    /\ UNCHANGED <<db_open, orchestrator, prog,
                   tr, burst_calls>>

DbMarkFailed ==
    /\ \E id \in Ids, o \in Outcomes(1) :
          LET r == DbCall(db, db_open, "mark_failed", id,
                          <<db, mark_failed(db, id)>>, o)
          IN db' = r.db /\ last' = r.last
    /\ UNCHANGED <<db_open, orchestrator, prog,
                   tr, burst_calls>>

DbDeleteSession ==
    /\ \E id \in Ids, o \in Outcomes(2) :
          LET r == DbCall(db, db_open, "delete_session", id,
                          <<db, delete_chunks(db, id), delete_session(db, id)>>, o)
          IN db' = r.db /\ last' = r.last
    /\ UNCHANGED <<db_open, orchestrator, prog,
                   tr, burst_calls>>

-----------------------------------------------------------------------------
(* StorageManager::transcribe_session with a progress callback *)

\* The percentages whisper's progress callback may pass for one chunk, in
\* increasing order.
Pcts == {0, 50, 100}

\* Lines 201-208 with WhisperEngine.cpp 111-119: the value passed to progress
\* for the chunk at position i when whisper reports p percent is
\* i * chunk_weight + (p / 100) * chunk_weight, with chunk_weight = 1 / n.
\* Values are kept as their numerators over 100 * n.
chunk_progress(i, p) == i * 100 + p

\* Line 228: progress(1.0f).
full_progress(n) == 100 * n

\* Lines 164-178: n >= 1 chunks were read.
ProgressStart ==
    /\ prog.state = "idle"
    /\ \E n \in 1..MaxBursts :
          prog' = [state |-> "loop", n |-> n, i |-> 0, p |-> -1, log |-> <<>>]
    /\ UNCHANGED <<db, db_open, orchestrator, last,
                   tr, burst_calls>>

\* WhisperEngine.cpp 111-119 and lines 204-206: whisper reports p percent.
ProgressReport ==
    /\ prog.state = "loop" /\ prog.i < prog.n
    /\ \E p \in Pcts :
          /\ p > prog.p
          /\ prog' = [prog EXCEPT !.p = p,
                                  !.log = Append(@, chunk_progress(prog.i, p))]
    /\ UNCHANGED <<db, db_open, orchestrator, last,
                   tr, burst_calls>>

\* Lines 180-218: the chunk is done, or was skipped (lines 187, 198).
ProgressNextChunk ==
    /\ prog.state = "loop" /\ prog.i < prog.n
    /\ prog' = [prog EXCEPT !.i = @ + 1, !.p = -1]
    /\ UNCHANGED <<db, db_open, orchestrator, last,
                   tr, burst_calls>>

\* Lines 220-230, after the loop.
ProgressFinal ==
    /\ prog.state = "loop" /\ prog.i = prog.n
    /\ prog' = [prog EXCEPT !.state = "done",
                            !.log = Append(@, full_progress(prog.n))]
    /\ UNCHANGED <<db, db_open, orchestrator, last,
                   tr, burst_calls>>

-----------------------------------------------------------------------------
CallerStep(t) ==
    \/ StartRejected(t) \/ StartCreate(t) \/ StartRecorder(t)
    \/ StopRejected(t) \/ StopBegin(t) \/ RecStopFlag(t) \/ RecStopJoin(t)
    \/ RecStopFinalize(t) \/ StopMark(t) \/ StopCheckJoinable(t) \/ StopJoin(t)
    \/ StopSpawn(t) \/ StopAssign(t)

Background ==
    \/ InitBegin \/ RecoverNext \/ RecoverGet \/ RecoverPersist \/ InitReturn
    \/ CapRead \/ CapEOF \/ CapExit \/ CapBoundary \/ Tick
    \/ \E s \in Ids : TaskGet(s) \/ TaskPersist(s) \/ TaskCallback(s)
    \/ Crash \/ Restart

Races(t) ==
    \/ StartRecorderTerminate(t) \/ StopAssignTerminate(t)

Next ==
    \/ \E t \in Callers : CallerReturn(t) \/ CallerStep(t) \/ Races(t)
    \/ CapReadClosed
    \/ Background

Spec == Init /\ [][Next]_vars

\* One caller thread issuing start() and stop() one after the other.
NextSeq == CallerReturn("t1") \/ CallerStep("t1") \/ Background

SpecSeq == Init /\ [][NextSeq]_vars

\* One caller thread that also calls transcribe_session.
NextApi ==
    \/ CallerReturn("t1") \/ CallerStep("t1") \/ Background
    \/ ApiTranscribeGet("t1") \/ ApiTranscribePersist("t1")

SpecApi == Init /\ [][NextApi]_vars

\* The store alone, called in any order, with SQLite steps that fail.
NextStore ==
    \/ DbOpen \/ DbCreateSession \/ DbAddChunk \/ DbUpdateTranscript
    \/ DbUpdateStatus \/ DbMarkFailed \/ DbDeleteSession

SpecStore == Init /\ [][NextStore]_vars

\* One caller thread in a process that does not crash, with burst writes
\* and reads of the capture device that may fail.
NextFaulty ==
    \/ CallerReturn("t1") \/ CallerStep("t1")
    \/ InitBegin \/ InitReturn
    \/ CapRead \/ CapEOF \/ CapExit \/ CapBoundary \/ Tick
    \/ \E s \in Ids : TaskGet(s) \/ TaskPersist(s) \/ TaskCallback(s)
    \/ RecStopFinalizeWriteFails("t1") \/ CapBoundaryWriteFails
    \/ CapReadError \/ CapRetry

SpecFaulty == Init /\ [][NextFaulty]_vars

\* One caller thread in a process that does not crash and in which init()
\* may be called again during a recording.
NextReinit ==
    \/ CallerReturn("t1") \/ CallerStep("t1")
    \/ InitBegin \/ InitAgain
    \/ RecoverNext \/ RecoverGet \/ RecoverPersist \/ InitReturn
    \/ CapRead \/ CapEOF \/ CapExit \/ CapBoundary \/ Tick
    \/ \E s \in Ids : TaskGet(s) \/ TaskPersist(s) \/ TaskCallback(s)

SpecReinit == Init /\ [][NextReinit]_vars

\* Two caller threads in a process that does not crash, with the burst
\* boundary of recording_loop taken step by step under the recorder's mu_.
NextLocks ==
    \/ \E t \in Callers :
          \/ CallerReturn(t)
          \/ StartRejected(t) \/ StartCreate(t) \/ StartRecorderLocked(t)
          \/ StopRejected(t) \/ StopBegin(t) \/ RecStopFlag(t) \/ RecStopJoin(t)
          \/ RecStopFinalizeLocked(t) \/ StopMark(t) \/ StopCheckJoinable(t)
          \/ StopJoin(t) \/ StopSpawn(t) \/ StopAssign(t)
          \/ Races(t)
    \/ CapReadClosed
    \/ InitBegin \/ InitReturn
    \/ CapRead \/ CapEOF \/ CapExit \/ Tick
    \/ CapNoBoundary \/ CapLock \/ CapFinalize \/ CapOpen
    \/ \E s \in Ids : TaskGet(s) \/ TaskPersist(s) \/ TaskCallback(s)

SpecLocks == Init /\ [][NextLocks]_vars

\* One host thread that uses an AudioRecorder of its own.
NextRecorder ==
    \/ DbOpen \/ HostCreateSession
    \/ HostRecStart("t1") \/ HostRecStop("t1") \/ HostRecReturn("t1")
    \/ RecStopFlag("t1") \/ RecStopJoin("t1") \/ RecStopFinalize("t1")
    \/ CapRead \/ CapEOF \/ CapExit \/ CapBoundary \/ Tick

SpecRecorder == Init /\ [][NextRecorder]_vars

\* One host thread that opens the store, fills it and calls
\* transcribe_session, one call after the other.
NextTranscribe ==
    \/ DbOpen \/ HostCreateSession \/ HostAddChunk \/ HostMarkTranscribing
    \/ TrGet \/ TrEmpty \/ TrChunk \/ TrPersist \/ TrReturn

SpecTranscribe == Init /\ [][NextTranscribe]_vars

\* One transcribe_session(id, progress) of a session with chunks.
NextProgress ==
    \/ ProgressStart \/ ProgressReport \/ ProgressNextChunk \/ ProgressFinal

SpecProgress == Init /\ [][NextProgress]_vars

\* A process that does not crash, with two caller threads, in which every
\* thread that can take a step eventually takes one: a call in progress, a
\* running transcription thread, the capture loop and init() all go on.
CallerProgress(t) ==
    \/ CallerReturn(t) \/ StartRecorder(t) \/ RecStopFlag(t) \/ RecStopJoin(t)
    \/ RecStopFinalize(t) \/ StopMark(t) \/ StopCheckJoinable(t) \/ StopJoin(t)
    \/ StopSpawn(t) \/ StopAssign(t) \/ Races(t)

TaskProgress == \E s \in Ids : TaskGet(s) \/ TaskPersist(s) \/ TaskCallback(s)

CaptureProgress == CapExit \/ CapBoundary

NextFair ==
    \/ \E t \in Callers : CallerReturn(t) \/ CallerStep(t) \/ Races(t)
    \/ CapReadClosed
    \/ InitBegin \/ InitReturn
    \/ CapRead \/ CapEOF \/ CapExit \/ CapBoundary \/ Tick
    \/ \E s \in Ids : TaskGet(s) \/ TaskPersist(s) \/ TaskCallback(s)

SpecFair ==
    /\ Init /\ [][NextFair]_vars
    /\ \A t \in Callers : SF_vars(CallerProgress(t))
    /\ SF_vars(TaskProgress)
    /\ SF_vars(CaptureProgress)
    /\ SF_vars(InitReturn)

-----------------------------------------------------------------------------
(* Properties *)

Terminal == {"complete", "failed"}

\* Positions of a caller inside stop_recording after recorder_.stop_recording()
\* has returned.
AfterRecorderStop == {"mark", "chk_join", "join", "spawn", "assign", "ret_stop_ok"}

Indices(rows) == [i \in 1..Len(rows) |-> rows[i].chunk_index]

\* C1: at any moment at most one transcription task launched by stop() is
\* running, whatever the interleaving of start() and stop() calls of the
\* caller threads.
C1_AtMostOneTask == Cardinality({s \in Ids : task[s] \in Active}) <= 1

\* C2: with a single caller, a stop() neither launches its transcription task
\* nor returns while an earlier task (its completion callback included) is
\* still running, and the task of an earlier session has finished before the
\* task of a later session begins.
C2_SecondStopWaits ==
    /\ \A t \in Callers : pc[t] \in {"spawn", "assign", "ret_stop_ok"} =>
          \A s \in Ids \ {sid[t]} : task[s] \notin Active
    /\ \A s1 \in Ids, s2 \in Ids :
          s1 < s2 /\ task[s2] # "none" => task[s1] \in {"none", "finished"}

\* The second stop() is waiting in join() for the first transcription.
C2_Witness ==
    \E t \in Callers : /\ pc[t] = "join" /\ sid[t] = 2
                       /\ transcription_thread_ = 1 /\ task[1] \in Active

\* C3: after a crash at any point of a session's lifecycle, once the process
\* has restarted and init() has returned, every session that existed at the
\* crash is in status complete or failed.
C3_CrashedSessionsTerminal ==
    (restarts >= 1 /\ initpc = "done") =>
        \A s \in Ids : s < bootNext => db.status[s] \in Terminal

\* C4: when init() has returned, every session that was in status recording
\* when recovery ran is complete if one of its bursts yielded text and failed
\* otherwise.
C4_RecoveredTerminal ==
    initpc = "done" =>
        \A s \in recovered :
            db.status[s] = IF heard[s] THEN "complete" ELSE "failed"

\* Recovery has completed a session from the bursts stored before the crash.
C4_Witness ==
    /\ initpc = "done" /\ restarts >= 1
    /\ \E s \in recovered : heard[s] /\ db.status[s] = "complete"

\* C5: once stop() has returned for a session, the session is in status
\* recording (orphaned) only while its transcription task has not finished.
C5_StoppedNotOrphaned ==
    \A s \in Ids : stopped[s] /\ db.status[s] = "recording" => task[s] \in Active

\* stop() has returned for a session and its transcription task has finished.
C5_Witness ==
    \E s \in Ids : stopped[s] /\ task[s] = "finished" /\ db.status[s] \in Terminal

Undelivered(s) ==
    \/ dropped[s]
    \/ rec.file = "dirty" /\ rec.current_chunk_path_.sid = s

\* C7: when the capture engine's stop() has returned, the burst that was being
\* written has been delivered, so every burst captured for the session is
\* stored before its status is set to transcribing and before its
\* transcription task reads its bursts.
C7_LastBurstStored ==
    /\ \A t \in Callers : pc[t] \in AfterRecorderStop => ~Undelivered(sid[t])
    /\ \A s \in Ids : task[s] \in Active => ~Undelivered(s)

\* C8: a session captured from start() to stop() has stored bursts with the
\* indices 0, 1, ..., n-1, in this order.
C8_GaplessIndices ==
    \A s \in Ids : stopped[s] =>
        LET rows == get_chunks(db, s)
        IN Indices(rows) = [i \in 1..Len(rows) |-> i - 1]

\* C9: a capture that lasted exactly k burst durations has, when stop()
\* returns, exactly k stored bursts, with the indices 0..k-1 and the duration
\* 35000 ms each.
C9_ExactBurstCount ==
    \A t \in Callers :
        (pc[t] = "ret_stop_ok" /\ capTime > 0 /\ capTime % TicksPerBurst = 0) =>
            LET rows == get_chunks(db, sid[t])
                k == capTime \div TicksPerBurst
            IN /\ Indices(rows) = [i \in 1..k |-> i - 1]
               /\ \A i \in 1..Len(rows) : rows[i].duration_ms = 35000

StartPcs == {"start_rec", "ret_start_busy", "ret_start_nodb", "ret_start_ok",
             "ret_start_fail"}

\* C10: a start() made while a recording is active returns the empty id and
\* changes neither the stored sessions and bursts, nor the current session
\* id, nor the running capture.
C10_StartWhileRecordingNoOp ==
    [][\A t \in Callers :
          (rec.recording_ /\ pc[t] = "idle" /\ pc'[t] \in StartPcs) =>
              /\ pc'[t] = "ret_start_busy" /\ sid'[t] = 0
              /\ UNCHANGED <<db, current_session_id_, rec, cappc, elapsed,
                             sm_mu_, task, transcription_thread_>>]_vars

\* A start() has returned the empty id while the session being recorded is
\* the current one.
C10_Witness ==
    \E t \in Callers : /\ pc[t] = "ret_start_busy" /\ rec.recording_
                       /\ current_session_id_ # 0
                       /\ db.status[current_session_id_] = "recording"

\* C11: when the capture engine fails to start inside start(), start() returns
\* the empty id (line 96) with the session of the attempt in status failed,
\* no recording in progress, no current session id and mu_ released.
C11_FailedStartIdle ==
    \A t \in Callers : pc[t] = "ret_start_fail" =>
        /\ db.status[sid[t]] = "failed"
        /\ ~rec.recording_
        /\ current_session_id_ = 0
        /\ sm_mu_ = NoThread

\* A start() has succeeded after the start() before it failed in the capture
\* engine.
C11_Witness ==
    /\ restarts = 0 /\ db.status[1] = "failed" /\ ~stopped[1]
    /\ \E t \in Callers : pc[t] = "ret_start_ok" /\ sid[t] = 2 /\ rec.recording_

\* C12 as stated: when the capture device or the encoder cannot be opened,
\* start() fails and the store holds no session for the attempt.
C12_NoSessionCreated ==
    \A t \in Callers : pc[t] = "ret_start_fail" => db.status[sid[t]] = "absent"

\* C12: the step of start() in which the capture device or the encoder cannot
\* be opened sets the session created for the attempt to failed and changes
\* no other session, no burst and no id.
C12_FailedStartKeepsFailedRow ==
    [][\A t \in Callers :
          (pc[t] = "start_rec" /\ pc'[t] = "ret_start_fail") =>
              /\ db.status[sid[t]] = "recording"
              /\ db' = [db EXCEPT !.status[sid[t]] = "failed"]]_vars

\* A start() has failed in the capture engine while an earlier session is
\* stored.
C12_Witness ==
    \E t \in Callers : /\ pc[t] = "ret_start_fail" /\ sid[t] = 2
                       /\ db.status[1] # "absent" /\ db.status[2] = "failed"

StopPcs == {"ret_stop_rejected", "rec_stop"}

\* C13: a stop() made while no recording is in progress invokes the completion
\* callback once, with success = false, before it returns, launches no
\* transcription thread and changes neither the orchestrator, nor the capture
\* engine, nor the store.
C13_StopWhileIdleNotifiesFailure ==
    [][\A t \in Callers :
          (~rec.recording_ /\ pc[t] = "idle" /\ pc'[t] \in StopPcs) =>
              /\ pc'[t] = "ret_stop_rejected"
              /\ called'[t] = <<Invocation(0, <<>>, FALSE)>>
              /\ UNCHANGED <<db, current_session_id_, transcription_thread_,
                             task, rec, cappc, sm_mu_, notified>>]_vars

\* A stop() has been refused while an earlier session is being transcribed.
C13_Witness ==
    \E t \in Callers : /\ pc[t] = "ret_stop_rejected" /\ ~rec.recording_
                       /\ called[t] # <<>>
                       /\ db.status[1] = "transcribing"

\* C16: while the transcription thread of a session runs, no capture thread of
\* that session exists: the capture loop has returned and has been joined.
C16_TaskAfterCapture ==
    \A s \in Ids : task[s] \in Active =>
        ~(rec.session_id_ = s /\ (cappc # "off" \/ rec.record_thread_))

\* The transcription thread of a session is reading the bursts its capture
\* loop stored.
C16_Witness ==
    \E s \in Ids : /\ task[s] = "persist" /\ snap[s] # <<>>
                   /\ rec.session_id_ = s /\ cappc = "off"

\* C17 as stated: no transcription thread runs for one session while the
\* capture loop is active for another session.
C17_NoTaskDuringOtherCapture ==
    \A s \in Ids : task[s] \in Active =>
        ~(cappc \in {"loop", "body"} /\ rec.session_id_ # s)

\* C17: a capture loop that is active while the transcription thread of a
\* session runs belongs to a session created after that one.
C17_TaskOnlyDuringLaterCapture ==
    \A s \in Ids : (task[s] \in Active /\ cappc \in {"loop", "body"}) =>
        rec.session_id_ > s

\* The first session is being transcribed while the second one is captured.
C17_Witness ==
    /\ task[1] \in Active /\ cappc \in {"loop", "body"}
    /\ rec.session_id_ = 2 /\ rec.recording_ /\ db.status[2] = "recording"

\* The completion callback has been invoked for s at most once, each time
\* with the id of s, the transcript transcribe_session returned and stored,
\* and success exactly when that transcript is not empty.
NotifiedRight(s) ==
    /\ Len(notified[s]) <= 1
    /\ \A i \in 1..Len(notified[s]) :
          LET n == notified[s][i]
          IN /\ n.id = s
             /\ n.success = (n.transcript # <<>>)
             /\ n.success => db.transcript[s] = n.transcript

\* C14: for every stop() made while a recording is active the completion
\* callback is eventually invoked, exactly once, with the session's id, the
\* transcript produced and success exactly when the transcript is not empty.
C14_EveryStopNotified ==
    /\ [](\A s \in Ids : NotifiedRight(s))
    /\ \A s \in Ids :
          (\E t \in Callers : pc[t] = "rec_stop" /\ sid[t] = s)
              ~> (Len(notified[s]) = 1)

\* C15: once a session's stored status is complete or failed, no later
\* operation (start, stop, recovery, transcribe_session) changes it: in
\* every step it stays as it is or the session is removed.
C15_TerminalStatusKept ==
    [][\A s \in Ids :
          db.status[s] \in Terminal => db'.status[s] \in {db.status[s], "absent"}]_vars

\* C18: every mutating store operation (create_session, add_chunk,
\* update_transcript, update_status, mark_failed, delete_session) is
\* all-or-nothing: when a step of it fails it returns its failure value and
\* the store is as it was before the call.
C18_AllOrNothing ==
    [][last'.failed => (~last'.ok /\ db' = db)]_vars

\* C19: a delete_session(id) that returns success leaves no session id and no
\* burst of id, and one that returns failure leaves both as they were: the
\* session and its bursts are removed together or not at all.
C19_DeleteRemovesBoth ==
    [][last'.op = "delete_session" =>
          IF last'.ok
          THEN /\ db'.status[last'.id] = "absent"
               /\ get_chunks(db', last'.id) = <<>>
          ELSE /\ db'.status[last'.id] = db.status[last'.id]
               /\ get_chunks(db', last'.id) = get_chunks(db, last'.id)]_vars

\* C20: the progress values reported by transcribe_session for a session with
\* N >= 1 bursts never decrease, and 1.0 is reported exactly once, as the
\* last value.
C20_ProgressMonotoneOneAtEnd ==
    prog.state = "done" =>
        /\ \A j \in 1..(Len(prog.log) - 1) : prog.log[j] <= prog.log[j + 1]
        /\ prog.log[Len(prog.log)] = full_progress(prog.n)
        /\ Cardinality({j \in 1..Len(prog.log) :
                            prog.log[j] = full_progress(prog.n)}) = 1

\* C21: a transcribe_session of a session that has no chunks returns the
\* empty string and leaves the session failed, and neither the converter nor
\* whisper is called.
C21_NoChunksFailed ==
    (tr.state = "returned" /\ tr.rows = <<>> /\ db.status[tr.id] # "absent") =>
        /\ tr.ret = <<>>
        /\ db.status[tr.id] = "failed"
        /\ tr.converted = {} /\ tr.transcribed = {}

C21_Witness ==
    /\ tr.state = "returned" /\ tr.rows = <<>>
    /\ get_chunks(db, tr.id) = <<>>
    /\ db.status[tr.id] = "failed" /\ tr.ret = <<>>

\* C22: when transcribe_session has returned for a session with at least one
\* chunk, the session is complete with the returned text stored if the text
\* is not empty, and failed if it is empty; it is never left transcribing.
C22_TerminalAfterTranscribe ==
    (tr.state = "returned" /\ tr.rows # <<>>) =>
        IF tr.ret # <<>>
        THEN db.status[tr.id] = "complete" /\ db.transcript[tr.id] = tr.ret
        ELSE db.status[tr.id] = "failed"

C22_Witness ==
    /\ tr.state = "returned" /\ tr.rows # <<>> /\ tr.ret # <<>>
    /\ db.status[tr.id] = "complete" /\ db.transcript[tr.id] = tr.ret

\* The j-th position of rows, in ascending order, for which text was returned.
KeptPosition(j) ==
    CHOOSE p \in tr.texts : Cardinality({q \in tr.texts : q <= p}) = j

\* C23: the transcript returned is made of the texts of the chunks in
\* ascending chunk_index order, of those chunks only that decode to samples
\* and for which whisper returns text, with exactly one space between two
\* texts; a chunk that fails or gives no text is skipped and every later
\* chunk is still transcribed.
C23_JoinedInOrder ==
    (tr.state = "returned" /\ tr.rows # <<>>) =>
        LET k == Cardinality(tr.texts)
        IN /\ tr.i = Len(tr.rows) + 1
           /\ tr.rows = get_chunks(db, tr.id)
           /\ \A p \in 1..(Len(tr.rows) - 1) :
                 tr.rows[p].chunk_index <= tr.rows[p + 1].chunk_index
           /\ tr.texts \subseteq tr.transcribed
           /\ tr.transcribed =
                 {p \in tr.converted : tr.rows[p].audio = "audio"}
           /\ Len(tr.ret) = IF k = 0 THEN 0 ELSE 2 * k - 1
           /\ \A j \in 1..k :
                 tr.ret[2 * j - 1] = tr.rows[KeptPosition(j)].chunk_index
           /\ \A j \in 1..(k - 1) : tr.ret[2 * j] = Space

C23_Witness ==
    /\ tr.state = "returned" /\ Len(tr.rows) = 2
    /\ tr.rows[1].chunk_index < tr.rows[2].chunk_index
    /\ tr.texts = {2} /\ tr.transcribed = {2}
    /\ tr.ret = <<tr.rows[2].chunk_index>>

\* C27: add_chunk stores a chunk whose index the session already has as one
\* more row, and get_chunks returns the chunks of a session in ascending
\* chunk_index order whatever the order they were added in.
C27_DuplicateKeptOrderAscending ==
    \A id \in 1..MaxTrSessions :
        LET rows == get_chunks(db, id)
        IN /\ \A p \in 1..(Len(rows) - 1) :
                 rows[p].chunk_index <= rows[p + 1].chunk_index
           /\ Len(rows) = Cardinality({p \in 1..Len(db.chunks) :
                                           db.chunks[p].session_id = id})
           /\ \A p \in 1..Len(rows) :
                 \E q \in 1..Len(db.chunks) : db.chunks[q] = rows[p]
           /\ db.status[id] # "absent" =>
                 \A idx \in 0..1 :
                    Len(get_chunks(add_chunk(db, id, idx, "audio", 0), id))
                        = Len(rows) + 1

C27_Witness ==
    \E id \in 1..MaxTrSessions :
        /\ Len(db.chunks) = 2
        /\ db.chunks[1].session_id = id /\ db.chunks[2].session_id = id
        /\ db.chunks[1].chunk_index > db.chunks[2].chunk_index
        /\ get_chunks(db, id) = <<db.chunks[2], db.chunks[1]>>

\* C24: a burst whose write to the store fails does not stop the capture:
\* the step that loses it changes nothing in the store, leaves the capture
\* loop running (or lets stop() go on to mark the session), and advances the
\* index, so that the chunks stored for a session are exactly the bursts
\* delivered to burst_cb_ whose write did not fail, each under its own index.
C24_WriteFailureLosesOneBurst ==
    /\ [](\A s \in Ids :
            /\ {c.chunk_index : c \in {b \in burst_calls :
                                          b.session_id = s /\ b.stored}}
                 = {get_chunks(db, s)[p].chunk_index :
                        p \in 1..Len(get_chunks(db, s))}
            /\ \A b \in burst_calls :
                  (b.session_id = s /\ ~b.stored) =>
                      \A p \in 1..Len(get_chunks(db, s)) :
                          get_chunks(db, s)[p].chunk_index # b.chunk_index)
    /\ [][(\E b \in burst_calls' \ burst_calls : ~b.stored) =>
             /\ db' = db
             /\ rec'.recording_ = rec.recording_
             /\ rec'.chunk_index_ = rec.chunk_index_ + 1
             /\ cappc = "body" => cappc' = "loop"
             /\ pc["t1"] = "rec_fin" => pc'["t1"] = "mark"]_vars

C24_Witness ==
    \E s \in Ids :
        /\ [session_id |-> s, chunk_index |-> 0, stored |-> FALSE] \in burst_calls
        /\ [session_id |-> s, chunk_index |-> 1, stored |-> TRUE] \in burst_calls
        /\ Indices(get_chunks(db, s)) = <<1>>
        /\ db.status[s] \in Terminal

\* C29: a read of the capture device that fails ends the capture loop,
\* whatever the error, and leaves the store as it is.
C29_ReadErrorEndsLoop ==
    [][(cappc = "loop" /\ rec.recording_ /\ cappc' \notin {"loop", "body"}) =>
          (cappc' = "exited" /\ db' = db)]_vars

\* C30: the stored status of a session changes only from recording to
\* transcribing or failed and from transcribing to complete or failed (and
\* from none to recording when the session is created): never backwards, and
\* never to complete from a status other than transcribing.
C30_StatusForward ==
    [][\A s \in Ids :
          db'.status[s] # db.status[s] =>
              <<db.status[s], db'.status[s]>> \in
                  {<<"absent", "recording">>, <<"recording", "transcribing">>,
                   <<"recording", "failed">>, <<"transcribing", "complete">>,
                   <<"transcribing", "failed">>}]_vars

C30_Witness ==
    \E s \in Ids, r \in Ids :
        /\ db.status[s] = "complete" /\ s \in recovered
        /\ db.status[r] = "failed" /\ r \notin recovered

\* C25: in every state a session has a transcript if and only if its status
\* is complete: update_transcript sets both in one step, and no state shows
\* a transcript with another status or complete without a transcript.
C25_TranscriptIffComplete ==
    \A s \in Ids : (db.transcript[s] # <<>>) <=> (db.status[s] = "complete")

\* The chunks stored for session s, in the order of their insertion.
ChunksOf(d, s) == SelectSeq(d.chunks, LAMBDA c : c.session_id = s)

\* C26: every chunk stored belongs to a session that is stored; an add_chunk
\* for a session that is not stored fails and stores nothing; the chunks of a
\* session are never changed, only added to, and they are removed only in a
\* step that removes their session.
C26_ChunksBelongToSessions ==
    /\ [](\A p \in 1..Len(db.chunks) :
             db.status[db.chunks[p].session_id] # "absent")
    /\ [][/\ (last'.op = "add_chunk" /\ db.status[last'.id] = "absent") =>
                (~last'.ok /\ db' = db)
          /\ \A s \in Ids :
                \/ ChunksOf(db', s) = ChunksOf(db, s)
                \/ /\ Len(ChunksOf(db', s)) = Len(ChunksOf(db, s)) + 1
                   /\ SubSeq(ChunksOf(db', s), 1, Len(ChunksOf(db, s)))
                        = ChunksOf(db, s)
                \/ /\ ChunksOf(db', s) = <<>>
                   /\ db.status[s] # "absent" /\ db'.status[s] = "absent"]_vars

\* C28: a create_session that returns an id has added exactly one session,
\* in status recording, under an id that was not stored, and has changed
\* nothing else; one that returns the empty id (the store is closed or the
\* INSERT failed) has changed nothing.
C28_CreateAddsOneOrNone ==
    [][last'.op = "create_session" =>
          IF last'.ok
          THEN /\ db.status[last'.id] = "absent"
               /\ db'.status[last'.id] = "recording"
               /\ \A s \in Ids \ {last'.id} : db'.status[s] = db.status[s]
               /\ db'.chunks = db.chunks /\ db'.transcript = db.transcript
          ELSE db' = db]_vars

\* C31: recovery takes an orphaned session without chunks from recording to
\* failed in one step, without reading its chunks for transcription or
\* calling transcribe_session; an orphaned session with chunks is first set
\* to transcribing, and then transcribe_session ends it as complete or
\* failed, as after a stop().
C31_RecoveryByChunks ==
    /\ [](initpc \in {"rec_get", "rec_persist"} =>
             /\ db.status[Head(orphaned)] = "transcribing"
             /\ get_chunks(db, Head(orphaned)) # <<>>)
    /\ [][\A s \in Ids :
             (initpc = "recover" /\ db.status[s] = "recording"
                /\ db'.status[s] # "recording") =>
                 IF get_chunks(db, s) = <<>>
                 THEN /\ db'.status[s] = "failed" /\ initpc' = "recover"
                      /\ attempts' = attempts /\ snap' = snap /\ heard' = heard
                 ELSE /\ db'.status[s] = "transcribing" /\ initpc' = "rec_get"]_vars
    /\ [][initpc = "rec_persist" /\ initpc' = "recover" =>
             \E texts \in Hearable(snap[Head(orphaned)]) :
                 db' = transcribe_persist(db, Head(orphaned),
                                          snap[Head(orphaned)], texts)]_vars

C31_Witness ==
    \E s \in recovered :
        /\ initpc = "done" /\ db.status[s] = "failed"
        /\ get_chunks(db, s) = <<>> /\ attempts[s] = 0

\* C32: in one process run transcribe_session is called at most once for a
\* session by the threads of stop() and by recovery together; a session whose
\* attempt failed is not attempted again.
C32_AtMostOneAttempt ==
    \A s \in Ids : attempts[s] <= 1

C32_Witness ==
    \E s \in recovered :
        /\ initpc = "done" /\ attempts[s] = 1 /\ db.status[s] = "failed"

\* C35: an AudioRecorder::stop_recording called while no recording is active
\* returns the empty path, invokes no burst callback and changes neither the
\* recorder nor the store, so that a second stop after a stop changes
\* nothing.
C35_StopWhenIdleIsNoOp ==
    [][\A t \in Callers :
          (pc[t] = "rec_stop" /\ ~rec.recording_ /\ pc'[t] # "rec_stop") =>
              /\ rec_ret'[t] = [returned |-> TRUE, path |-> NoPath]
              /\ rec' = rec /\ db' = db /\ burst_calls' = burst_calls
              /\ cappc' = cappc]_vars

C35_Witness ==
    /\ pc["t1"] = "mark" /\ ~rec.recording_
    /\ rec_ret["t1"] = [returned |-> TRUE, path |-> NoPath]
    /\ rec.chunk_index_ > 0 /\ cappc = "off"

\* C34: the duration stored for a complete session is the sum of the
\* durations of all the chunks stored for it, and it is written once: only in
\* a step that takes the session to complete, and never again.
C34_DurationIsSumSetOnce ==
    /\ [](\A s \in Ids :
             db.status[s] = "complete" =>
                 db.duration_ms[s] = total_duration_ms(get_chunks(db, s)))
    /\ [][\A s \in Ids :
             db'.duration_ms[s] # db.duration_ms[s] =>
                 /\ db.status[s] # "complete" /\ db'.status[s] = "complete"
                 /\ db.duration_ms[s] = 0]_vars

\* C38: when the thread of stop() invokes done_cb for a session with success,
\* the session is stored as complete with the transcript passed to done_cb,
\* and when it invokes it without success the session is stored as failed.
C38_CallbackMatchesStore ==
    [][\A s \in Ids :
          Len(notified'[s]) > Len(notified[s]) =>
              LET n == notified'[s][Len(notified'[s])]
              IN IF n.success
                 THEN /\ db'.status[s] = "complete"
                      /\ db'.transcript[s] = n.transcript
                 ELSE db'.status[s] = "failed"]_vars

\* C36: once init() has returned at most one session is stored as recording,
\* and a session stored as recording is the current session of the
\* orchestrator or the session of a start() or stop() call in progress.
C36_OneRecordingSession ==
    initpc = "done" =>
        /\ Cardinality({s \in Ids : db.status[s] = "recording"}) <= 1
        /\ \A s \in Ids :
              db.status[s] = "recording" =>
                  \/ current_session_id_ = s
                  \/ \E t \in Callers : pc[t] # "idle" /\ sid[t] = s

\* C37: a chunk is added to a session only while the session is stored as
\* recording, the chunk a stop() finalizes is added to the session that
\* stop() is stopping, and no audio captured for a session is lost: nothing
\* written for it was replaced before it was delivered.
C37_BurstsGoToTheirSession ==
    /\ [](\A s \in Ids : db.status[s] \in Terminal => ~dropped[s])
    /\ [][\A s \in Ids :
             Len(ChunksOf(db', s)) > Len(ChunksOf(db, s)) =>
                 /\ db.status[s] = "recording"
                 /\ \A t \in Callers :
                       (pc[t] = "rec_fin" /\ pc'[t] = "mark") => sid[t] = s]_vars

\* C39: while a session is the one being captured, recovery leaves it as it
\* is: its status stays recording and transcribe_session is not called for
\* it, whenever init() or recover_orphaned_sessions() runs.
C39_RecoverySparesActiveSession ==
    [][\A s \in Ids :
          (rec.recording_ /\ current_session_id_ = s
             /\ current_session_id_' = s /\ db.status[s] = "recording") =>
              (db'.status[s] = "recording" /\ attempts'[s] = attempts[s])]_vars

\* C33: finalize_chunk followed by open_new_chunk is one critical section of
\* the recorder: a stop() does not run its finalize_chunk while the capture
\* thread is between the two, no chunk index of a session is delivered and
\* stored twice, and a chunk file is finalized and delivered once, by one
\* thread: a file that was delivered is not delivered again.
C33_BurstFinalizedOnce ==
    /\ [](\A s \in Ids :
             \A p \in 1..Len(ChunksOf(db, s)), q \in 1..Len(ChunksOf(db, s)) :
                 p # q => ChunksOf(db, s)[p].chunk_index
                            # ChunksOf(db, s)[q].chunk_index)
    /\ [][\A t \in Callers :
             (pc[t] = "rec_fin" /\ pc'[t] = "mark") =>
                 cappc \notin CriticalSection]_vars
    /\ [][(\E s \in Ids : Len(ChunksOf(db', s)) > Len(ChunksOf(db, s))) =>
             rec.file # "saved"]_vars

\* C40: every start() and every stop() that has begun returns to its caller.
C40_CallsReturn ==
    \A t \in Callers :
        (pc[t] \notin ({"idle"} \cup RetPcs)) ~> (pc[t] \in RetPcs)

====
